---- MODULE Spec2Model ----
(***************************************************************************)
(* ai2cli: the conversational state machine (machine.js, states/*.js), the *)
(* context threaded through it, and the child-process execution engine of  *)
(* EXECUTE_COMMAND.                                                        *)
(*                                                                         *)
(* Strings are sequences of characters.  User texts are spelled out       *)
(* (<<"x", " ">>); captured process output is a sequence of runs           *)
(* <<tag, n>>, n characters that came from the source `tag`, so that       *)
(* lengths and prefixes are computed and not assumed.                      *)
(* JavaScript values that can be absent are tagged records (kind).         *)
(***************************************************************************)
EXTENDS Integers, Sequences, FiniteSets, TLC

---------------------------------------------------------------------------
(* Bounds of the model *)

\* longest commandHistory explored
MaxHistory == 2
\* children of finished executions whose 'close' is still to come
MaxStale == 1

---------------------------------------------------------------------------
(* JavaScript values *)

Undefined == [kind |-> "undefined"]
Null == [kind |-> "null"]
Bool(b) == [kind |-> "bool", b |-> b]
Str(s) == [kind |-> "string", value |-> s]

\* JavaScript truthiness, as used by `!x`, `x || y`, `x ? a : b`
Truthy(v) ==
  CASE v.kind = "undefined" -> FALSE
    [] v.kind = "null" -> FALSE
    [] v.kind = "bool" -> v.b
    [] v.kind = "string" -> v.value # <<>>
    [] OTHER -> TRUE

\* optional chaining `v?.output` on a value: only objects carry the property
OptOutput(v) == IF v.kind = "object" THEN v.output ELSE Undefined

\* optional chaining `v?.error`
OptError(v) == IF v.kind = "object" THEN v.error ELSE Undefined

---------------------------------------------------------------------------
(* Texts typed by the user or produced by the model *)

RECURSIVE TrimLeft(_)
TrimLeft(s) ==
  IF s = <<>> THEN <<>>
  ELSE IF Head(s) = " " THEN TrimLeft(Tail(s)) ELSE s

RECURSIVE TrimRight(_)
TrimRight(s) ==
  IF s = <<>> THEN <<>>
  ELSE IF s[Len(s)] = " " THEN TrimRight(SubSeq(s, 1, Len(s) - 1)) ELSE s

\* String.prototype.trim
Trim(s) == TrimRight(TrimLeft(s))

\* what a user can type at a free-text prompt: nothing, a blank, a text
UserTexts == {<<>>, <<" ">>, <<"x", " ">>}

\* the texts that trim() empties
BlankTexts == {t \in UserTexts : Trim(t) = <<>>}

\* the model's clarification_needed: empty, a question
ClarificationTexts == {<<>>, <<"q">>}

\* the same with a request that is only white space
GeneratedClarifications == ClarificationTexts \cup {<<" ">>}

---------------------------------------------------------------------------
(* States of the machine *)

RegisteredStates ==
  {"NEW", "USER_REQUEST", "USER_RESPONSE", "REQUEST_CLARIFICATION",
   "EXECUTE_COMMAND", "REFINE", "CHANGE_MODEL", "SAVE_SCRIPT",
   "SCRIPT_SELECTION", "SETUP", "EXIT"}

\* models a configuration can list
ConfigModels == {<<"p/m1">>, <<"p/m1", "p/m2">>}

---------------------------------------------------------------------------
(* Captured process output: a sequence of runs <<tag, n>> *)

\* exit codes a child can report to 'close'; "null" is a death by signal
ExitCodes == {"0", "2", "null"}
\* the code 'close' reports after a failed spawn: the negated errno
SpawnFailureCode == "-2"

\* sizes of the chunks a child writes on stdout and on stderr
StdoutChunkLens == {1000}
StderrChunkLens == {1}
\* chunks a child writes on each stream
MaxChunks == 2

\* length of err.message of a failure to spawn ("spawn /bin/sh ENOENT")
SpawnErrorMessageLens == {20}

MAX_OUTPUT_LENGTH == 1000
\* "\n[Output truncated - " and " more characters]"
MarkerHeadLen == 21
MarkerTailLen == 17
\* "Error: " and the closing "\n"
ErrorHeadLen == 7
ErrorTailLen == 1
\* "Command exited with code " and "Failed to start command: "
ExitMessageLen == 25
StartMessageLen == 25

RECURSIVE Digits(_)
\* number of characters of the decimal numeral of n
Digits(n) == IF n < 10 THEN 1 ELSE 1 + Digits(n \div 10)

\* length of `${code}`
CodeTextLen(code) ==
  CASE code = "null" -> 4
    [] code = "-2" -> 2
    [] OTHER -> 1

MarkerLen(omitted) == MarkerHeadLen + Digits(omitted) + MarkerTailLen

RunLen(r) == IF r[1] = "marker" THEN MarkerLen(r[2]) ELSE r[2]

RECURSIVE StrLen(_)
\* String.prototype.length of a captured output
StrLen(runs) == IF runs = <<>> THEN 0 ELSE RunLen(Head(runs)) + StrLen(Tail(runs))

RECURSIVE Substring0(_, _)
\* runs.substring(0, n)
Substring0(runs, n) ==
  IF runs = <<>> \/ n <= 0 THEN <<>>
  ELSE IF RunLen(Head(runs)) <= n
       THEN <<Head(runs)>> \o Substring0(Tail(runs), n - RunLen(Head(runs)))
       ELSE <<(<<Head(runs)[1], n>>)>>

\* `Error: ${error.message}\n` for "Command exited with code <code>"
ExitErrorText(code) ==
  <<"errmsg", ErrorHeadLen + ExitMessageLen + CodeTextLen(code) + ErrorTailLen>>

\* `Error: ${error.message}\n` for "Failed to start command: <message>"
StartErrorText(msgLen) ==
  <<"errmsg", ErrorHeadLen + StartMessageLen + msgLen + ErrorTailLen>>

\* `Error: ${error.message}\n` for an exception thrown by spawn itself
ThrownErrorText(msgLen) == <<"errmsg", ErrorHeadLen + msgLen + ErrorTailLen>>

\* the truncation applied from 1000 characters on
TruncateOutput_FromLimit(out) ==
  IF StrLen(out) >= MAX_OUTPUT_LENGTH
  THEN Append(Substring0(out, MAX_OUTPUT_LENGTH),
              <<"marker", StrLen(out) - MAX_OUTPUT_LENGTH>>)
  ELSE out

\* the truncation of the captured output
TruncateOutput(out) ==
  IF StrLen(out) > MAX_OUTPUT_LENGTH
  THEN Append(Substring0(out, MAX_OUTPUT_LENGTH),
              <<"marker", StrLen(out) - MAX_OUTPUT_LENGTH>>)
  ELSE out

\* the promise resolving on a zero exit code only
CloseResolves_ZeroOnly(code, terminated) == code = "0"

\* the promise resolving whenever the child ended with an exit code
CloseResolves_AnyExitCode(code, terminated) == code # "null" \/ terminated

\* the promise of the 'close' listener resolves (else it rejects)
CloseResolves(code, terminated) == code = "0" \/ terminated

\* the wait settled by 'exit'
WaitSettlesOn_Exit == "exit"

\* the child event whose listener settles the wait
WaitSettlesOn == "close"

\* the child events whose listener removes the SIGINT listener
ListenerRemovedOn == {"close"}

\* plans of chunks for one stream: sequences of at most MaxChunks lengths
RECURSIVE ChunkPlans(_, _)
ChunkPlans(lens, k) ==
  IF k = 0 THEN {<<>>}
  ELSE ChunkPlans(lens, k - 1) \cup
       {Append(p, n) : p \in {q \in ChunkPlans(lens, k - 1) : Len(q) = k - 1}, n \in lens}

\* what a child writes: <<chunks on stdout, chunks on stderr>>
AllPlans ==
  ChunkPlans(StdoutChunkLens, MaxChunks) \X ChunkPlans(StderrChunkLens, MaxChunks)

\* the child that writes nothing
SilentPlans == {<<<<>>, <<>>>>}

\* what spawn can do: throw, start a child that emits 'error', start the command
SpawnOutcomes == {"thrown", "failing", "running"}

---------------------------------------------------------------------------
(* Script names *)

\* characters of a suggested name: "a" lower case, "A" upper case, "_" other
SuggestedNames == {<<"_", "A">>}
Hashes == {"h1", "h2"}

ToLower(c) == IF c = "A" THEN "a" ELSE c
IsAlnum(c) == c \notin {"_", "-", " ", "A"}

RECURSIVE ReplaceNonAlnum(_)
\* .replace(/[^a-z0-9]+/g, "-")
ReplaceNonAlnum(s) ==
  IF s = <<>> THEN <<>>
  ELSE IF IsAlnum(Head(s)) THEN <<Head(s)>> \o ReplaceNonAlnum(Tail(s))
  ELSE LET rest == ReplaceNonAlnum(Tail(s))
       IN IF Tail(s) # <<>> /\ ~IsAlnum(Head(Tail(s))) THEN rest ELSE <<"-">> \o rest

\* .replace(/^-|-$/g, "")
StripHyphens(s) ==
  LET a == IF s # <<>> /\ Head(s) = "-" THEN Tail(s) ELSE s
  IN IF a # <<>> /\ a[Len(a)] = "-" THEN SubSeq(a, 1, Len(a) - 1) ELSE a

\* the name computed on every script generation
NewScriptName(suggested, hash) ==
  LET base == IF suggested = <<>> THEN <<"generated", "-", "script">> ELSE suggested
      lower == [i \in 1..Len(base) |-> ToLower(base[i])]
  IN Str(StripHyphens(ReplaceNonAlnum(lower)) \o <<"-", hash>>)

\* a name taken anew on every generation
KeepOrAssignName_Fresh(current, new) == new

\* scriptName: context.scriptName || newScriptName
KeepOrAssignName(current, new) == IF Truthy(current) THEN current ELSE new

---------------------------------------------------------------------------
(* The context and the process *)

VARIABLES
  currentState,      \* runStateMachine: currentState
  model,             \* context.model ("undefined" with an empty configuration)
  scriptMode,        \* context.scriptMode
  scriptName,        \* context.scriptName
  currentCommand,    \* context.currentCommand, an exchange
  commandHistory,    \* context.commandHistory
  config,            \* context.config: [has, models]
  hasMultipleModels, \* context.hasMultipleModels
  modelChanged,      \* context.modelChanged
  stdinRaw,          \* process.stdin is in raw mode
  stdinFlowing,      \* process.stdin is being read (resumed)
  keypressListeners, \* 'keypress' listeners of process.stdin registered after
                     \* the global one, in order: "menu", "return"
  processExited,     \* the ai2cli process is gone
  pc,                \* position inside handleExecuteCommand: idle, waiting, prompt
  childStatus,       \* none, failing, failed, running, exited, closed
  childOut,          \* chunks written to stdout and not yet delivered
  childErr,          \* chunks written to stderr and not yet delivered
  childCode,         \* exit code of the child ("none" while it runs)
  executionOutput,   \* handleExecuteCommand: executionOutput
  hasError,          \* handleExecuteCommand: hasError
  terminatedByUser,  \* handleExecuteCommand: terminatedByUser
  waitState,         \* the awaited promise: none, pending, resolved, rejected
  sigintListeners,   \* process listeners of SIGINT, by the child they kill:
                     \* 0 is the child of the running handler
  staleChildren,     \* children of finished runs whose 'close' is still to come
  begun,             \* history: non-blank answers that began a new exchange
  lastStep,          \* history: the handler that ran last
  lastInput,         \* history: what that handler was given by the user or by
                     \* the generation
  captured,          \* history: executionOutput as it was before the truncation
  interrupted        \* history: the user interrupted the running child

ctx == <<model, scriptMode, scriptName, currentCommand, commandHistory, config,
         hasMultipleModels, modelChanged>>
stdin == <<stdinRaw, stdinFlowing, keypressListeners>>
engine == <<pc, childStatus, childOut, childErr, childCode, executionOutput,
            hasError, terminatedByUser, waitState, sigintListeners, staleChildren,
            captured, interrupted>>
vars == <<currentState, ctx, stdin, processExited, engine, begun, lastStep, lastInput>>

\* an exchange object; `id` is the identity of the JavaScript object and
\* `ord` the number of exchanges begun before the one it belongs to
Exchange(id, ord, request, type, response, refused, results, previous, existing) ==
  [id |-> id, ord |-> ord, request |-> request, type |-> type,
   response |-> response, refusedClarification |-> refused,
   executionResults |-> results, previousExecutionResults |-> previous,
   existingScript |-> existing]

\* context.request as handleSetup reads it: initialContext has no such property
ContextRequest == Undefined

\* index.js setupGlobalKeyHandler: raw mode, stdin resumed
GlobalKeyHandlerStdin == [raw |-> TRUE, flowing |-> TRUE]

\* util.js setupKeypressHandler's cleanup: raw mode off, stdin paused
CleanupHandlerStdin == [raw |-> FALSE, flowing |-> FALSE]

\* an enquirer prompt that has run: the raw mode it found, stdin paused
PromptStdin(raw) == [raw |-> raw, flowing |-> FALSE]

\* the initial exchange of index.js entry
InitialExchange(request) ==
  Exchange(1, 0, request, "prompt", Null, Bool(FALSE), Undefined, Undefined, Null)

\* an entry that lets a request on the command line go before the options
InitialState_RequestFirst(hasConfig, setup, refineScripts, request) ==
  IF request # <<>> THEN "USER_REQUEST"
  ELSE IF ~hasConfig \/ setup THEN "SETUP"
  ELSE IF refineScripts THEN "SCRIPT_SELECTION"
  ELSE "NEW"

\* index.js entry: the initial state
InitialState(hasConfig, setup, refineScripts, request) ==
  IF ~hasConfig \/ setup THEN "SETUP"
  ELSE IF refineScripts THEN "SCRIPT_SELECTION"
  ELSE IF request = <<>> THEN "NEW"
  ELSE "USER_REQUEST"

\* index.js entry, for the command lines and configurations given
InitWith(hasConfigs, setups, refines, requests, modelLists) ==
  \E hasConfig \in hasConfigs, setup \in setups, refineScripts \in refines,
     script \in BOOLEAN, request \in requests, models \in modelLists :
    /\ currentState = InitialState(hasConfig, setup, refineScripts, request)
    /\ config = IF hasConfig THEN [has |-> TRUE, models |-> models]
                ELSE [has |-> FALSE, models |-> <<>>]
    /\ model = IF hasConfig THEN models[1] ELSE "undefined"
    /\ hasMultipleModels = (hasConfig /\ Len(models) > 1)
    /\ currentCommand = InitialExchange(request)
    /\ commandHistory = <<>>
    /\ scriptMode = script
    /\ scriptName = Null
    /\ modelChanged = FALSE
    /\ stdinRaw = GlobalKeyHandlerStdin.raw
    /\ stdinFlowing = GlobalKeyHandlerStdin.flowing
    /\ keypressListeners = <<>>
    /\ processExited = FALSE
    /\ pc = "idle"
    /\ childStatus = "none"
    /\ childOut = <<>>
    /\ childErr = <<>>
    /\ childCode = "none"
    /\ executionOutput = <<>>
    /\ hasError = FALSE
    /\ terminatedByUser = FALSE
    /\ waitState = "none"
    /\ sigintListeners = <<>>
    /\ staleChildren = {}
    /\ begun = 0
    /\ lastStep = "init"
    /\ lastInput = IF setup
                   THEN IF refineScripts THEN "--setup --refine-scripts" ELSE "--setup"
                   ELSE IF refineScripts THEN "--refine-scripts" ELSE "none"
    /\ captured = <<>>
    /\ interrupted = FALSE

\* every way of starting ai2cli
Init == InitWith(BOOLEAN, BOOLEAN, BOOLEAN, {<<>>, <<"x", " ">>}, ConfigModels)

\* ai2cli started with a request and a configuration of one model
InitEngine == InitWith({TRUE}, {FALSE}, {FALSE}, {<<"x", " ">>}, {<<"p/m1">>})

\* a handler dispatched whatever the current state is
Dispatch_AnyState(s) == /\ ~processExited
                        /\ pc = "idle"

\* the runner dispatches the handler of state s
Dispatch(s) == /\ ~processExited
               /\ currentState = s
               /\ pc = "idle"

\* after an enquirer prompt
PromptDone == /\ stdinRaw' = PromptStdin(stdinRaw).raw
              /\ stdinFlowing' = PromptStdin(stdinRaw).flowing
              /\ keypressListeners' = keypressListeners

---------------------------------------------------------------------------
(* The runner's merge and the conversational handlers *)

\* the identity of an object allocated while `hist` is the history kept
NewId(hist) ==
  LET used == {hist[i].id : i \in 1..Len(hist)}
  IN CHOOSE i \in 1..(Len(hist) + 1) : i \notin used /\ \A j \in 1..(i - 1) : j \in used

\* runStateMachine, after the handler of state `from` returned:
\* currentState = result.nextState; context = {...context, ...result.context}
Transition(from, next, cur, hist, mode, name, mdl, changed) ==
  /\ currentState' = next
  /\ currentCommand' = cur
  /\ commandHistory' = hist
  /\ scriptMode' = mode
  /\ scriptName' = name
  /\ model' = mdl
  /\ modelChanged' = changed
  /\ lastStep' = from
  /\ UNCHANGED <<config, hasMultipleModels, processExited, engine>>

\* a transition that hands the context back as it was
SameContext(from, next) ==
  Transition(from, next, currentCommand, commandHistory, scriptMode, scriptName,
             model, modelChanged)

\* results the generation can return in command mode and in script mode;
\* of their fields, those a handler reads
GenerationResults(mode, clars, flags) ==
  IF mode
  THEN {[kind |-> "object", mode |-> "script", clarification_needed |-> c,
         should_be_script |-> FALSE] : c \in clars}
  ELSE {[kind |-> "object", mode |-> "command", clarification_needed |-> c,
         should_be_script |-> b] : c \in clars, b \in flags}

\* the result as the conversation keeps it: should_be_script is read once, by
\* handleUserRequest, before the result is stored
StoredResult(result) ==
  [kind |-> "object", mode |-> result.mode,
   clarification_needed |-> result.clarification_needed]

\* the exchange copied without the result
WithResponse_NotStored(cur, id, result) == [cur EXCEPT !.id = id]

\* { ...context.currentCommand, response: result }
WithResponse(cur, id, result) == [cur EXCEPT !.id = id, !.response = result]

\* the routing test without its look at refusedClarification
NeedsClarification_IgnoreRefusal(cur, result) ==
  /\ Truthy(Str(result.clarification_needed))
  /\ Trim(result.clarification_needed) # <<>>

\* the routing test without trim()
NeedsClarification_Untrimmed(cur, result) ==
  /\ ~Truthy(cur.refusedClarification)
  /\ Truthy(Str(result.clarification_needed))

\* the test that routes USER_REQUEST to REQUEST_CLARIFICATION
NeedsClarification(cur, result) ==
  /\ ~Truthy(cur.refusedClarification)
  /\ Truthy(Str(result.clarification_needed))
  /\ Trim(result.clarification_needed) # <<>>

\* history: 1 when the user gave an answer that is not blank, else 0
Answered(text, cancelled) ==
  IF ~cancelled /\ \E k \in 1..Len(text) : text[k] # " " THEN 1 ELSE 0

\* history: how a text prompt ended
PromptOutcome(text, cancelled) ==
  IF cancelled THEN "cancelled" ELSE IF Trim(text) = <<>> THEN "blank" ELSE "answered"

\* a failed generation answered by the entry menu
AfterFailedGeneration_StartOver == "NEW"

\* a failed generation answered by generating again
AfterFailedGeneration_Retry == "USER_REQUEST"

\* the next state handleUserRequest returns when the generation gave no
\* result, and from its catch block
AfterFailedGeneration == "EXIT"

\* prompt.js getClarificationPrompt: the wrapper around a clarification answer
GetClarificationPrompt(request) == [template |-> "clarification", request |-> request]

\* a refinement wrapper that never embeds the results of the execution
GetRefinementPrompt_WithoutResults(existingScript, request, executionResults) ==
  IF Truthy(existingScript)
  THEN [template |-> "refine script", script |-> existingScript, request |-> request]
  ELSE [template |-> "refine previous", request |-> request]

\* prompt.js getRefinementPrompt: one of three wrappers, chosen by the
\* truthiness of existingScript, then of executionResults; `${executionResults}`
\* embeds the value as a string
GetRefinementPrompt(existingScript, request, executionResults) ==
  IF Truthy(existingScript)
  THEN [template |-> "refine script", script |-> existingScript, request |-> request]
  ELSE IF Truthy(executionResults)
  THEN [template |-> "refine with results",
        results |-> IF executionResults.kind = "string" THEN executionResults.value
                    ELSE <<"[object Object]">>,
        request |-> request]
  ELSE [template |-> "refine previous", request |-> request]

\* buildMessagesLLM's getPrompt(command): existingScript is not passed on
GetPrompt(command) ==
  IF command.type = "clarification" THEN GetClarificationPrompt(command.request)
  ELSE IF command.type = "refinement"
  THEN GetRefinementPrompt(Undefined, command.request, command.executionResults)
  ELSE [template |-> "request", request |-> command.request]

\* commandHistory.forEach: a user message, then the assistant's
\* JSON.stringify(command.response)
RECURSIVE HistoryMessages(_)
HistoryMessages(history) ==
  IF history = <<>> THEN <<>>
  ELSE <<[role |-> "user", type |-> "text", content |-> GetPrompt(Head(history))],
         [role |-> "assistant", content |-> [json |-> Head(history).response]]>>
       \o HistoryMessages(Tail(history))

\* buildMessagesLLM(context): the messages sent to the model
BuildMessagesLLM(history, command, mode) ==
  <<[role |-> "system", type |-> "text",
     content |-> [template |-> IF mode THEN "script system" ELSE "command system"]]>>
  \o HistoryMessages(history)
  \o <<[role |-> "user", type |-> "text", content |-> GetPrompt(command)]>>

\* handleUserRequest: the generation throws, or returns no result
UserRequestFails ==
  /\ Dispatch("USER_REQUEST")
  /\ SameContext("USER_REQUEST", AfterFailedGeneration)
  /\ begun' = begun
  /\ lastInput' = "failed"
  /\ UNCHANGED stdin

\* the conversion taken unless the user answers no
ConversionAccepted_UnlessDeclined(asks, confirm) == asks /\ confirm # "no"

\* the user is asked whether to create a script instead, and accepts
ConversionAccepted(asks, confirm) == asks /\ confirm = "yes"

\* handleUserRequest: the generation returns a result
UserRequestGenerates(clars, flags) ==
  /\ Dispatch("USER_REQUEST")
  /\ \E result \in GenerationResults(scriptMode, clars, flags), suggested \in SuggestedNames,
        hash \in Hashes, confirm \in {"yes", "no", "cancelled"} :
       LET newName == IF scriptMode THEN NewScriptName(suggested, hash) ELSE Undefined
           asks == ~scriptMode /\ result.should_be_script
       IN /\ IF ConversionAccepted(asks, confirm)
             THEN Transition("USER_REQUEST", "USER_REQUEST", currentCommand,
                             commandHistory, TRUE, scriptName, model, modelChanged)
             ELSE Transition("USER_REQUEST",
                             IF NeedsClarification(currentCommand, result)
                             THEN "REQUEST_CLARIFICATION" ELSE "USER_RESPONSE",
                             WithResponse(currentCommand, NewId(commandHistory),
                                          StoredResult(result)),
                             commandHistory, scriptMode,
                             KeepOrAssignName(scriptName, newName), model, modelChanged)
          /\ IF asks THEN PromptDone ELSE UNCHANGED stdin
          /\ lastInput' = IF ~asks THEN "generated"
                          ELSE CASE confirm = "yes" -> "accepted"
                                 [] confirm = "no" -> "declined"
                                 [] OTHER -> "cancelled"
  /\ begun' = begun

\* the exchange copied without the mark
Refused_Unmarked(cur, id) == [cur EXCEPT !.id = id]

\* { ...currentCommand, refusedClarification: true }
Refused(cur, id) == [cur EXCEPT !.id = id, !.refusedClarification = Bool(TRUE)]

\* the answer to a clarification kept as an exchange of type refinement
ClarificationExchange_AsRefinement(id, ord, answer) ==
  Exchange(id, ord, answer, "refinement", Undefined, Undefined, Undefined,
           Undefined, Undefined)

\* { request: clarificationInput, type: "clarification" }
ClarificationExchange(id, ord, answer) ==
  Exchange(id, ord, answer, "clarification", Undefined, Undefined, Undefined,
           Undefined, Undefined)

\* the history handed on without the exchange
PushHistory_DropsCurrent(hist, cur) == hist

\* the exchange put at the front of the history
PushHistory_Unshift(hist, cur) == <<cur>> \o hist

\* [...context.commandHistory, currentCommand]
PushHistory(hist, cur) == Append(hist, cur)

\* a cancelled prompt taken for an answer
ClarificationRefused_OnlyEmpty(input, cancelled) == input = <<>>

\* the clarification is refused: the prompt is cancelled (catch block) or its
\* result is the empty string
ClarificationRefused(input, cancelled) == cancelled \/ input = <<>>

\* handleRequestClarification; the prompt's result is the trimmed input
RequestClarification ==
  /\ Dispatch("REQUEST_CLARIFICATION")
  /\ \E text \in UserTexts, cancelled \in BOOLEAN :
       LET clarificationInput == Trim(text)
       IN /\ IF ClarificationRefused(clarificationInput, cancelled)
             THEN Transition("REQUEST_CLARIFICATION", "USER_RESPONSE",
                             Refused(currentCommand, NewId(commandHistory)),
                             commandHistory, scriptMode, scriptName, model,
                             modelChanged)
             ELSE /\ Len(commandHistory) < MaxHistory
                  /\ LET hist == PushHistory(commandHistory, currentCommand)
                     IN Transition("REQUEST_CLARIFICATION", "USER_REQUEST",
                                   ClarificationExchange(NewId(hist), begun + 1,
                                                         clarificationInput),
                                   hist, scriptMode, scriptName, model, modelChanged)
          /\ begun' = begun + Answered(text, cancelled)
          /\ lastInput' = PromptOutcome(text, cancelled)
  /\ PromptDone

\* { request, previousExecutionResults: currentCommand.executionResults, type: "refinement" }
RefinementExchange(id, ord, request, cur) ==
  Exchange(id, ord, request, "refinement", Undefined, Undefined, Undefined,
           cur.executionResults, Undefined)

\* the test without trim()
RefinementGiven_Untrimmed(text, cancelled) == ~cancelled /\ text # <<>>

\* the prompt returned an instruction: it was not cancelled and
\* refinementRequest.trim() is not empty
RefinementGiven(text, cancelled) == ~cancelled /\ Trim(text) # <<>>

\* handleRefine
Refine ==
  /\ Dispatch("REFINE")
  /\ \E text \in UserTexts, cancelled \in BOOLEAN :
       /\ IF ~RefinementGiven(text, cancelled)
          THEN SameContext("REFINE", "USER_RESPONSE")
          ELSE /\ Len(commandHistory) < MaxHistory
               /\ LET hist == PushHistory(commandHistory, currentCommand)
                  IN Transition("REFINE", "USER_REQUEST",
                                RefinementExchange(NewId(hist), begun + 1, text,
                                                   currentCommand),
                                hist, scriptMode, scriptName, model, modelChanged)
       /\ begun' = begun + Answered(text, cancelled)
       /\ lastInput' = PromptOutcome(text, cancelled)
  /\ PromptDone

\* the results cleared on every exchange the context holds
ClearResultsInPlace_Everywhere(ex, id) == [ex EXCEPT !.executionResults = Null]

\* newContext.currentCommand.executionResults = null, written through the
\* reference: every holder of the object `id` sees it
ClearResultsInPlace(ex, id) ==
  IF ex.id = id THEN [ex EXCEPT !.executionResults = Null] ELSE ex

\* handleChangeModel
ChangeModel ==
  /\ Dispatch("CHANGE_MODEL")
  /\ \E i \in 1..Len(config.models), cancelled \in BOOLEAN :
       LET selectedModel == config.models[i]
       IN /\ lastInput' = IF cancelled THEN "cancelled" ELSE "selected"
          /\ IF cancelled THEN SameContext("CHANGE_MODEL", "EXIT")
             ELSE IF selectedModel = model
             THEN SameContext("CHANGE_MODEL", "USER_RESPONSE")
             ELSE Transition("CHANGE_MODEL", "USER_REQUEST",
                             ClearResultsInPlace(currentCommand, currentCommand.id),
                             [k \in 1..Len(commandHistory) |->
                                ClearResultsInPlace(commandHistory[k], currentCommand.id)],
                             scriptMode, scriptName, selectedModel, TRUE)
  /\ begun' = begun
  /\ PromptDone

\* handleChangeModel as the second definition of the repository has it: the
\* context is changed in place, the results are kept, and for the model in
\* use the context itself is returned, which has no nextState
ChangeModelInPlace ==
  /\ Dispatch("CHANGE_MODEL")
  /\ \E i \in 1..Len(config.models), cancelled \in BOOLEAN :
       LET selectedModel == config.models[i]
       IN /\ lastInput' = IF cancelled THEN "cancelled" ELSE "selected"
          /\ IF cancelled THEN SameContext("CHANGE_MODEL", "USER_RESPONSE")
             ELSE IF selectedModel = model
             THEN SameContext("CHANGE_MODEL", "undefined")
             ELSE Transition("CHANGE_MODEL", "USER_REQUEST", currentCommand,
                             commandHistory, scriptMode, scriptName, selectedModel,
                             TRUE)
  /\ begun' = begun
  /\ PromptDone

\* keys of the review menu that lead to a transition
MenuKeys == {"return", "c", "s", "m", "r"}

\* a keypress as readline reports it: key.name and key.ctrl
Key(name, ctrl) == [name |-> name, ctrl |-> ctrl]

\* the keys pressed at the review menu: its letters, Enter, a letter the menu
\* does not know, Escape, Ctrl+C
Keypresses ==
  {Key(n, FALSE) : n \in MenuKeys \cup {"b", "d", "x", "escape"}} \cup {Key("c", TRUE)}

\* history: the name under which a keypress is recorded
KeyLabel(key) == IF key.ctrl THEN "ctrl+c" ELSE key.name

\* options.debug: the command line has no option of that name
OptionsDebug == FALSE

\* the command schema requires a breakdown, the script schema has none
HasBreakdown(response) == response # Null /\ response.mode = "command"

\* the chain without its test of hasMultipleModels
KeyBranch_ModelAlways(key, mode, multiple) ==
  IF key.name = "return" THEN "execute"
  ELSE IF key.name = "c" THEN "copy"
  ELSE IF key.name = "b" /\ ~mode THEN "breakdown"
  ELSE IF key.name = "s" /\ ~mode THEN "script"
  ELSE IF key.name = "d" /\ OptionsDebug THEN "debug"
  ELSE IF key.name = "m" THEN "model"
  ELSE IF key.name = "r" THEN "refine"
  ELSE IF key.ctrl /\ key.name = "c" THEN "exit"
  ELSE "ignored"

\* keypressHandler: the branch of its if-else chain that a key takes
KeyBranch(key, mode, multiple) ==
  IF key.name = "return" THEN "execute"
  ELSE IF key.name = "c" THEN "copy"
  ELSE IF key.name = "b" /\ ~mode THEN "breakdown"
  ELSE IF key.name = "s" /\ ~mode THEN "script"
  ELSE IF key.name = "d" /\ OptionsDebug THEN "debug"
  ELSE IF key.name = "m" /\ multiple THEN "model"
  ELSE IF key.name = "r" THEN "refine"
  ELSE IF key.ctrl /\ key.name = "c" THEN "exit"
  ELSE "ignored"

\* the branches that resolve the handler's promise
ResolvingBranches == {"execute", "copy", "script", "debug", "model", "refine", "exit"}

\* key 's' answered with the review of the result at hand
BranchState_ScriptReviewedAtOnce(branch) ==
  CASE branch = "execute" -> "EXECUTE_COMMAND"
    [] branch = "copy" -> "EXIT"
    [] branch = "script" -> "USER_RESPONSE"
    [] branch = "debug" -> "undefined"
    [] branch = "model" -> "CHANGE_MODEL"
    [] branch = "refine" -> "REFINE"
    [] branch = "exit" -> "EXIT"

\* the next state a resolving branch names; State.DEBUG is not defined
BranchState(branch) ==
  CASE branch = "execute" -> "EXECUTE_COMMAND"
    [] branch = "copy" -> "EXIT"
    [] branch = "script" -> "USER_REQUEST"
    [] branch = "debug" -> "undefined"
    [] branch = "model" -> "CHANGE_MODEL"
    [] branch = "refine" -> "REFINE"
    [] branch = "exit" -> "EXIT"

\* resolve({ nextState, context }): only the script branch changes the context
Resolve(branch) ==
  Transition("USER_RESPONSE", BranchState(branch), currentCommand, commandHistory,
             scriptMode \/ branch = "script", scriptName, model, modelChanged)

\* handleUserResponse when the first key pressed is one that resolves the wait:
\* the handler is registered, called once and removed
UserResponse(keys) ==
  /\ Dispatch("USER_RESPONSE")
  /\ \E name \in keys :
       LET branch == KeyBranch(Key(name, FALSE), scriptMode, hasMultipleModels)
       IN /\ branch \in ResolvingBranches
          /\ lastInput' = name
          /\ Resolve(branch)
  /\ begun' = begun
  /\ stdinRaw' = CleanupHandlerStdin.raw
  /\ stdinFlowing' = CleanupHandlerStdin.flowing
  /\ keypressListeners' = keypressListeners

\* index.js setupGlobalKeyHandler: Escape and Ctrl+C end the process; the
\* listener is the first registered, so it runs before every other one
GlobalKeyExits(key) == key.name = "escape" \/ (key.ctrl /\ key.name = "c")

\* util.js setupKeypressHandler(handler): raw mode, the listener added, stdin
\* resumed
SetupKeypressHandler(listeners, handler) ==
  [raw |-> TRUE, flowing |-> TRUE, listeners |-> Append(listeners, handler)]

\* the cleanup function setupKeypressHandler returns
CleanupKeypressHandler(listeners, handler) ==
  [raw |-> CleanupHandlerStdin.raw, flowing |-> CleanupHandlerStdin.flowing,
   listeners |-> SelectSeq(listeners, LAMBDA l : l # handler)]

\* process.stdin after the calls that gave r
SetStdin(r) == /\ stdinRaw' = r.raw
               /\ stdinFlowing' = r.flowing
               /\ keypressListeners' = r.listeners

\* key 'b' with the menu's handler left registered
ShowBreakdown_KeepsMenu(listeners) == SetupKeypressHandler(listeners, "return")

\* key 'b': cleanupHandler(), the breakdown shown, then
\* setupKeypressHandler(returnHandler)
ShowBreakdown(listeners) ==
  SetupKeypressHandler(CleanupKeypressHandler(listeners, "menu").listeners, "return")

\* the breakdown left with the menu handler not registered again
ReturnToMenu_NotRegistered(listeners) == CleanupKeypressHandler(listeners, "return")

\* returnHandler: cleanupTempHandler(), the options shown, then
\* cleanupHandler = setupKeypressHandler(keypressHandler)
ReturnToMenu(listeners) ==
  SetupKeypressHandler(CleanupKeypressHandler(listeners, "return").listeners, "menu")

\* handleUserResponse starts: the result and the options are shown and the
\* menu's keypress handler is registered
MenuOpen ==
  /\ Dispatch("USER_RESPONSE")
  /\ keypressListeners = <<>>
  /\ SetStdin(SetupKeypressHandler(keypressListeners, "menu"))
  /\ lastStep' = "USER_RESPONSE"
  /\ UNCHANGED <<currentState, ctx, processExited, engine, begun, lastInput>>

\* a key is pressed while the menu's handler is registered
MenuKey(keys) ==
  /\ ~processExited
  /\ currentState = "USER_RESPONSE"
  /\ stdinFlowing
  /\ \E i \in 1..Len(keypressListeners) : keypressListeners[i] = "menu"
  /\ \E key \in keys :
       LET branch == KeyBranch(key, scriptMode, hasMultipleModels)
       IN /\ lastInput' = KeyLabel(key)
          /\ IF GlobalKeyExits(key)
             THEN /\ processExited' = TRUE
                  /\ UNCHANGED <<currentState, ctx, stdin, engine, begun, lastStep>>
             ELSE IF branch \in ResolvingBranches
             THEN /\ Resolve(branch)
                  /\ SetStdin(CleanupKeypressHandler(keypressListeners, "menu"))
                  /\ begun' = begun
             ELSE /\ IF branch = "breakdown"
                     THEN SetStdin(ShowBreakdown(keypressListeners))
                     ELSE UNCHANGED stdin
                  /\ UNCHANGED <<currentState, ctx, processExited, engine, begun,
                                 lastStep>>

\* a key is pressed while the breakdown is shown
BreakdownReturn(keys) ==
  /\ ~processExited
  /\ currentState = "USER_RESPONSE"
  /\ stdinFlowing
  /\ \E i \in 1..Len(keypressListeners) : keypressListeners[i] = "return"
  /\ \E key \in keys :
       /\ lastInput' = KeyLabel(key)
       /\ IF GlobalKeyExits(key)
          THEN /\ processExited' = TRUE
               /\ UNCHANGED stdin
          ELSE /\ SetStdin(ReturnToMenu(keypressListeners))
               /\ UNCHANGED processExited
  /\ UNCHANGED <<currentState, ctx, engine, begun, lastStep>>

---------------------------------------------------------------------------
(* Entry-selection handlers *)

MenuOptions(hasScriptsToRefine) ==
  IF hasScriptsToRefine
  THEN <<"Generate a command", "Generate a script", "Refine an existing script">>
  ELSE <<"Generate a command", "Generate a script">>

\* option.name of a menu option: the options are strings, which have no name
OptionName(option) == Undefined

\* options.findIndex((option) => option.name === answer), zero-based
FindIndexByName(options, answer) ==
  LET hits == {i \in 1..Len(options) : OptionName(options[i]) = Str(answer)}
  IN IF hits = {} THEN 0 - 1
     ELSE (CHOOSE i \in hits : \A j \in hits : i <= j) - 1

\* the exchange handleNew creates
NewExchange(id, request) ==
  Exchange(id, 0, request, "prompt", Null, Bool(FALSE), Undefined, Undefined, Null)

\* handleNew
New ==
  /\ Dispatch("NEW")
  /\ \E scriptsExist \in BOOLEAN, k \in 1..3, text \in UserTexts,
        cancelled \in {"no", "select", "input"} :
       LET options == MenuOptions(scriptsExist)
           selectedIndex == FindIndexByName(options, options[k])
           isScriptMode == selectedIndex = 1
       IN /\ k <= Len(options)
          /\ IF cancelled = "select" THEN SameContext("NEW", "EXIT")
             ELSE IF scriptsExist /\ selectedIndex = 2
             THEN SameContext("NEW", "SCRIPT_SELECTION")
             ELSE IF cancelled = "input" THEN SameContext("NEW", "EXIT")
             ELSE IF Trim(text) = <<>> THEN SameContext("NEW", "EXIT")
             ELSE Transition("NEW", "USER_REQUEST",
                             NewExchange(NewId(commandHistory), text), commandHistory,
                             isScriptMode, scriptName, model, modelChanged)
          /\ lastInput' = IF PromptOutcome(text, cancelled # "no") = "answered"
                          THEN options[k]
                          ELSE PromptOutcome(text, cancelled # "no")
  /\ begun' = begun
  /\ PromptDone

\* what the user types when asked how to refine the selected script
RefinementTexts == {<<"x", " ">>}

\* names of the scripts saved on disk
SavedScriptNames == {<<"saved", "-", "h0">>}

\* the selected script begun as an exchange of type refinement
SelectedScriptExchange_AsRefinement(id, text) ==
  Exchange(id, 0, <<"Refine the following script:">> \o text, "refinement", Null,
           Undefined, Undefined, Undefined, Str(<<"script">>))

\* the exchange handleScriptSelection creates; the request is the refinement
\* wrapper around the script and the typed text
SelectedScriptExchange(id, text) ==
  Exchange(id, 0, <<"Refine the following script:">> \o text, "prompt", Null,
           Undefined, Undefined, Undefined, Str(<<"script">>))

\* handleScriptSelection
ScriptSelection ==
  /\ Dispatch("SCRIPT_SELECTION")
  /\ \E scriptsExist \in BOOLEAN, selectedScript \in SavedScriptNames,
        text \in RefinementTexts, outcome \in {"cancelled", "load_failed", "selected"} :
       IF ~scriptsExist
       THEN /\ SameContext("SCRIPT_SELECTION", "NEW")
            /\ lastInput' = "none"
            /\ UNCHANGED stdin
       ELSE /\ lastInput' = outcome
            /\ IF outcome = "selected"
               THEN Transition("SCRIPT_SELECTION", "USER_REQUEST",
                               SelectedScriptExchange(NewId(commandHistory), text),
                               commandHistory, TRUE, Str(selectedScript), model,
                               modelChanged)
               ELSE SameContext("SCRIPT_SELECTION", "EXIT")
            /\ PromptDone
  /\ begun' = begun

\* the exchange handleSetup creates for a request given on the command line
SetupExchange(id, request) ==
  Exchange(id, 0, request.value, "prompt", Null, Bool(FALSE), Undefined, Undefined,
           Undefined)

\* handleSetup
Setup ==
  /\ Dispatch("SETUP")
  /\ \E outcome \in {"cancelled", "no_models", "exit", "thrown", "saved"},
        models \in ConfigModels :
       \E d \in 1..Len(models) :
         /\ currentState' =
              IF outcome \in {"cancelled", "no_models"} THEN "EXIT"
              ELSE IF outcome \in {"exit", "thrown"} THEN currentState
              ELSE IF Truthy(ContextRequest) THEN "USER_REQUEST" ELSE "NEW"
         /\ processExited' = (outcome \in {"exit", "thrown"})
         /\ IF outcome = "saved"
            THEN /\ config' = [has |-> TRUE, models |-> models]
                 /\ model' = models[d]
                 /\ hasMultipleModels' = (Len(models) > 1)
                 /\ currentCommand' =
                      IF Truthy(ContextRequest)
                      THEN SetupExchange(currentCommand.id, ContextRequest)
                      ELSE currentCommand
            ELSE UNCHANGED <<config, model, hasMultipleModels, currentCommand>>
         /\ lastStep' = "SETUP"
         /\ lastInput' = outcome
  /\ UNCHANGED <<commandHistory, scriptMode, scriptName, modelChanged, engine, begun>>
  /\ PromptDone

---------------------------------------------------------------------------
(* handleExecuteCommand: the execution engine *)

\* the children whose SIGINT listener or 'close' is still around
UsedSlots(listeners, stale) ==
  (stale \cup {listeners[k] : k \in 1..Len(listeners)}) \ {0}

\* process.removeListener("SIGINT", sigintHandler) of child r
RemoveListener(listeners, r) == SelectSeq(listeners, LAMBDA x : x # r)

\* the listeners left once the child event `event` of child r has been handled
ListenersAfter(event, listeners, r) ==
  IF event \in ListenerRemovedOn THEN RemoveListener(listeners, r) ELSE listeners

\* a follow-up exchange that leaves the output of the execution behind
FollowUpExchange_WithoutOutput(id, ord, answer, output) ==
  Exchange(id, ord, answer, "refinement", Undefined, Undefined, Undefined,
           Undefined, Undefined)

\* newContext.currentCommand = { request: answer, executionResults: executionOutput,
\*                               type: "refinement" }
FollowUpExchange(id, ord, answer, output) ==
  Exchange(id, ord, answer, "refinement", Undefined, Undefined, Str(output),
           Undefined, Undefined)

\* the handler's path from the settled wait to the follow-up prompt: the catch
\* block when the wait rejected, then the truncation
ContinueToPrompt(outcome, errorText) ==
  LET failed == outcome # "resolved"
      out == IF failed THEN Append(executionOutput, errorText) ELSE executionOutput
  IN /\ hasError' = (hasError \/ failed)
     /\ captured' = out
     /\ executionOutput' = TruncateOutput(out)
     /\ waitState' = outcome
     /\ pc' = "prompt"

\* the handler starts: (script mode) the script is saved and its parameters
\* asked for, then the command is spawned and the listeners are installed
ExecStart(outcomes, plans) ==
  /\ Dispatch("EXECUTE_COMMAND")
  /\ \E outcome \in outcomes, plan \in plans,
        msgLen \in SpawnErrorMessageLens :
       IF outcome = "thrown"
       THEN /\ hasError' = TRUE
            /\ captured' = <<ThrownErrorText(msgLen)>>
            /\ executionOutput' = TruncateOutput(<<ThrownErrorText(msgLen)>>)
            /\ waitState' = "none"
            /\ pc' = "prompt"
            /\ UNCHANGED <<childStatus, childOut, childErr, sigintListeners>>
       ELSE /\ sigintListeners' = Append(sigintListeners, 0)
            /\ childStatus' = outcome
            /\ childOut' = IF outcome = "running" THEN plan[1] ELSE <<>>
            /\ childErr' = IF outcome = "running" THEN plan[2] ELSE <<>>
            /\ executionOutput' = <<>>
            /\ hasError' = FALSE
            /\ captured' = <<>>
            /\ waitState' = "pending"
            /\ pc' = "waiting"
  /\ lastStep' = "EXECUTE_COMMAND"
  /\ IF scriptMode THEN PromptDone ELSE UNCHANGED stdin
  /\ UNCHANGED <<currentState, ctx, processExited, childCode, terminatedByUser,
                 staleChildren, interrupted, begun, lastInput>>

\* childProcess.stdout.on("data")
ChildStdout ==
  /\ ~processExited
  /\ childStatus \in {"running", "exited"}
  /\ childOut # <<>>
  /\ executionOutput' = Append(executionOutput, <<"out", Head(childOut)>>)
  /\ childOut' = Tail(childOut)
  /\ UNCHANGED <<currentState, ctx, stdin, processExited, pc, childStatus, childErr,
                 childCode, hasError, terminatedByUser, waitState, sigintListeners,
                 staleChildren, captured, interrupted, begun, lastStep, lastInput>>

\* childProcess.stderr.on("data")
ChildStderr ==
  /\ ~processExited
  /\ childStatus \in {"running", "exited"}
  /\ childErr # <<>>
  /\ executionOutput' = Append(executionOutput, <<"err", Head(childErr)>>)
  /\ childErr' = Tail(childErr)
  /\ hasError' = TRUE
  /\ UNCHANGED <<currentState, ctx, stdin, processExited, pc, childStatus, childOut,
                 childCode, terminatedByUser, waitState, sigintListeners,
                 staleChildren, captured, interrupted, begun, lastStep, lastInput>>

\* the listener that settles the wait, run for the child event `event`
SettleOn(event, code) ==
  IF waitState = "pending" /\ pc = "waiting" /\ WaitSettlesOn = event
  THEN ContinueToPrompt(IF CloseResolves(code, terminatedByUser) THEN "resolved"
                        ELSE "rejected",
                        ExitErrorText(code))
  ELSE UNCHANGED <<hasError, captured, executionOutput, waitState, pc>>

\* the child process ends; its pipes may still hold output
ChildExit(codes) ==
  /\ ~processExited
  /\ childStatus = "running"
  /\ \E code \in codes :
       /\ childCode' = code
       /\ SettleOn("exit", code)
  /\ childStatus' = "exited"
  /\ sigintListeners' = ListenersAfter("exit", sigintListeners, 0)
  /\ UNCHANGED <<currentState, ctx, stdin, processExited, childOut, childErr,
                 terminatedByUser, staleChildren, interrupted, begun, lastStep, lastInput>>

\* 'close': the child has ended and both of its streams have been read to
\* the end; also the 'close' that follows the 'error' of a failed spawn
ChildClose ==
  /\ ~processExited
  /\ \/ childStatus = "exited" /\ childOut = <<>> /\ childErr = <<>>
     \/ childStatus = "failed"
  /\ SettleOn("close", childCode)
  /\ childStatus' = "closed"
  /\ sigintListeners' = ListenersAfter("close", sigintListeners, 0)
  /\ UNCHANGED <<currentState, ctx, stdin, processExited, childOut, childErr,
                 childCode, terminatedByUser, staleChildren, interrupted, begun,
                 lastStep, lastInput>>

\* 'error': the command could not be started
ChildError ==
  /\ ~processExited
  /\ childStatus = "failing"
  /\ \E msgLen \in SpawnErrorMessageLens :
       IF waitState = "pending" /\ pc = "waiting"
       THEN ContinueToPrompt("rejected", StartErrorText(msgLen))
       ELSE UNCHANGED <<hasError, captured, executionOutput, waitState, pc>>
  /\ childStatus' = "failed"
  /\ childCode' = SpawnFailureCode
  /\ sigintListeners' = ListenersAfter("error", sigintListeners, 0)
  /\ UNCHANGED <<currentState, ctx, stdin, processExited, childOut, childErr,
                 terminatedByUser, staleChildren, interrupted, begun, lastStep, lastInput>>

\* the 'close' of a child of a finished run of the handler
StaleClose ==
  /\ ~processExited
  /\ \E r \in staleChildren :
       /\ staleChildren' = staleChildren \ {r}
       /\ sigintListeners' = ListenersAfter("close", sigintListeners, r)
  /\ UNCHANGED <<currentState, ctx, stdin, processExited, pc, childStatus, childOut,
                 childErr, childCode, executionOutput, hasError, terminatedByUser,
                 waitState, captured, interrupted, begun, lastStep, lastInput>>

\* the user presses Ctrl+C while the handler waits for the child.  Read from
\* a raw stdin it is a keypress, which the global key handler answers with
\* process.exit; with stdin not raw the terminal raises SIGINT, which runs
\* the registered sigintHandlers, or ends the process when there is none
Interrupt ==
  /\ ~processExited
  /\ pc = "waiting"
  /\ stdinRaw => stdinFlowing
  /\ IF stdinRaw \/ sigintListeners = <<>>
     THEN /\ processExited' = TRUE
          /\ UNCHANGED <<terminatedByUser, interrupted>>
     ELSE /\ processExited' = FALSE
          /\ terminatedByUser' =
               (terminatedByUser \/ \E k \in 1..Len(sigintListeners) :
                                       sigintListeners[k] = 0)
          /\ interrupted' = (interrupted \/ childStatus = "running")
  /\ UNCHANGED <<currentState, ctx, stdin, pc, childStatus, childOut, childErr,
                 childCode, executionOutput, hasError, waitState, sigintListeners,
                 staleChildren, captured, begun, lastStep, lastInput>>

\* what the handler leaves behind when it returns: a child whose 'close' is
\* still to come, and the SIGINT listener if it is still registered
LeftBehind(listeners, stale, status) ==
  LET pending == status \in {"running", "exited", "failed"}
      listening == \E k \in 1..Len(listeners) : listeners[k] = 0
      used == UsedSlots(listeners, stale)
      slot == CHOOSE k \in 1..(MaxStale + 1) : k \notin used
  IN [needed |-> pending \/ listening,
      fits |-> Cardinality(used) < MaxStale,
      listeners |-> [k \in 1..Len(listeners) |->
                       IF listeners[k] = 0 THEN slot ELSE listeners[k]],
      stale |-> IF pending THEN stale \cup {slot} ELSE stale]

\* handleUserResponse prints "Last Output:" and the output under
\* `if (currentCommand.executionResults?.output)`
LastOutputShown(command) == Truthy(OptOutput(command.executionResults))

\* handleRefine's `hasOutput`, under which the last output is shown as context
HasOutput(command) == Truthy(OptOutput(command.executionResults))

\* the follow-up prompt's `initial`, always the suggestion
FollowUpInitial_Always(error) == "fix the errors"

\* the follow-up prompt's `initial`: hasError ? "fix the errors" : ""
FollowUpInitial(error) == IF error THEN "fix the errors" ELSE ""

\* the follow-up prompt is answered or cancelled and the handler returns
ExecFollowUp(texts) ==
  /\ ~processExited
  /\ currentState = "EXECUTE_COMMAND"
  /\ pc = "prompt"
  /\ \E text \in texts, cancelled \in BOOLEAN :
       /\ IF cancelled
          THEN /\ currentState' = "EXECUTE_COMMAND"
               /\ UNCHANGED ctx
          ELSE IF Trim(text) = <<>>
          THEN /\ currentState' = "EXIT"
               /\ UNCHANGED ctx
          ELSE /\ Len(commandHistory) < MaxHistory
               /\ LET hist == PushHistory(commandHistory, currentCommand)
                  IN /\ currentCommand' =
                          FollowUpExchange(NewId(hist), begun + 1, text, executionOutput)
                     /\ commandHistory' = hist
               /\ currentState' = "USER_REQUEST"
               /\ UNCHANGED <<model, scriptMode, scriptName, config,
                              hasMultipleModels, modelChanged>>
       /\ begun' = begun + Answered(text, cancelled)
       /\ lastInput' = PromptOutcome(text, cancelled)
  /\ LET left == LeftBehind(sigintListeners, staleChildren, childStatus)
     IN IF left.needed
        THEN /\ left.fits
             /\ sigintListeners' = left.listeners
             /\ staleChildren' = left.stale
        ELSE UNCHANGED <<sigintListeners, staleChildren>>
  /\ lastStep' = "EXECUTE_COMMAND"
  /\ pc' = "idle"
  /\ executionOutput' = <<>>
  /\ captured' = <<>>
  /\ hasError' = FALSE
  /\ terminatedByUser' = FALSE
  /\ interrupted' = FALSE
  /\ waitState' = "none"
  /\ childStatus' = "none"
  /\ childOut' = <<>>
  /\ childErr' = <<>>
  /\ childCode' = "none"
  /\ PromptDone
  /\ UNCHANGED processExited

---------------------------------------------------------------------------
(* The program *)

Next ==
  \/ UserRequestFails
  \/ UserRequestGenerates(ClarificationTexts, BOOLEAN)
  \/ RequestClarification
  \/ Refine
  \/ ChangeModel
  \/ UserResponse(MenuKeys)
  \/ New
  \/ ScriptSelection
  \/ Setup
  \/ ExecStart({"running"}, SilentPlans)
  \/ ChildExit({"2"})
  \/ ChildClose
  \/ ExecFollowUp(UserTexts)

\* every conversation; the commands run start, write nothing, are left alone
\* and end with exit code 2
Spec == Init /\ [][Next]_vars

NextEngine ==
  \/ UserRequestGenerates({<<>>}, {FALSE})
  \/ UserResponse({"return"})
  \/ ExecStart(SpawnOutcomes, AllPlans)
  \/ ChildStdout
  \/ ChildStderr
  \/ ChildExit(ExitCodes)
  \/ ChildClose
  \/ ChildError
  \/ StaleClose
  \/ Interrupt
  \/ ExecFollowUp(BlankTexts)

\* every child, run after run: the follow-up prompt is cancelled, which runs
\* the command again, or left blank
SpecEngine == InitEngine /\ [][NextEngine]_vars

\* ai2cli started with a request and a configuration
InitDialogue == InitWith({TRUE}, {FALSE}, {FALSE}, {<<"x", " ">>}, ConfigModels)

NextDialogue ==
  \/ UserRequestFails
  \/ UserRequestGenerates(GeneratedClarifications, BOOLEAN)
  \/ RequestClarification
  \/ Refine
  \/ ChangeModel
  \/ UserResponse(MenuKeys)

\* the dialogue about one request, nothing being run: generations that ask
\* for a clarification, ask for none or ask a blank one
SpecDialogue == InitDialogue /\ [][NextDialogue]_vars

\* ai2cli started with a request and a configuration of two models
InitModels == InitWith({TRUE}, {FALSE}, {FALSE}, {<<"x", " ">>}, {<<"p/m1", "p/m2">>})

NextModels ==
  \/ UserRequestGenerates({<<>>}, {FALSE})
  \/ UserResponse(MenuKeys)
  \/ ChangeModel
  \/ ChangeModelInPlace
  \/ ExecStart({"running"}, SilentPlans)
  \/ ChildExit({"2"})
  \/ ChildClose
  \/ ExecFollowUp(UserTexts)

\* sessions that change the model, with either definition of
\* handleChangeModel, before and after commands are run
SpecModels == InitModels /\ [][NextModels]_vars

NextMenu ==
  \/ UserRequestGenerates({<<>>}, {FALSE})
  \/ MenuOpen
  \/ MenuKey(Keypresses)
  \/ BreakdownReturn(Keypresses)
  \/ Refine
  \/ ChangeModel

\* the review menu key by key: keys it acts on, keys it ignores, the
\* breakdown and the way back from it
SpecMenu == InitDialogue /\ [][NextMenu]_vars

---------------------------------------------------------------------------
(* The history of the conversation *)

\* C1: commandHistory has one entry per exchange begun by a non-blank answer
\* (clarification, refinement, follow-up); its entries are in the order in
\* which the exchanges were begun, oldest first; the object currentCommand is
\* none of its elements.
C1_HistoryCountsAndOrdersExchanges ==
  /\ Len(commandHistory) = begun
  /\ \A i \in 1..Len(commandHistory) : commandHistory[i].ord = i - 1
  /\ currentCommand.ord = Len(commandHistory)
  /\ \A i \in 1..Len(commandHistory) : commandHistory[i].id # currentCommand.id

\* a clarification answer and then a follow-up after an execution have each
\* begun an exchange
C1_Witness ==
  /\ Len(commandHistory) = 2
  /\ commandHistory[1].type = "prompt"
  /\ commandHistory[2].type = "clarification"
  /\ currentCommand.type = "refinement"
  /\ currentCommand.executionResults.kind = "string"

\* C2: commandHistory is append-only: in every step the history before is a
\* prefix of the history after, every field of its entries included.
C2_HistoryIsAppendOnly ==
  [][/\ Len(commandHistory') >= Len(commandHistory)
     /\ \A i \in 1..Len(commandHistory) : commandHistory'[i] = commandHistory[i]]_vars

\* CHANGE_MODEL has cleared the results of the current exchange while the
\* history, pushed to by EXECUTE_COMMAND, holds an exchange with results
C2_Witness ==
  /\ lastStep = "CHANGE_MODEL"
  /\ modelChanged
  /\ currentCommand.executionResults = Null
  /\ Len(commandHistory) = 2
  /\ commandHistory[2].executionResults.kind = "string"

\* C3: once scriptName is a name, no step changes it.
C3_ScriptNameIsStable ==
  [][scriptName.kind = "string" => scriptName' = scriptName]_vars

\* a script has been generated again for a later exchange of a named script
C3_Witness ==
  /\ lastStep = "USER_REQUEST"
  /\ scriptName.kind = "string"
  /\ Len(commandHistory) >= 1
  /\ commandHistory[1].response.kind = "object"
  /\ commandHistory[1].response.mode = "script"
  /\ currentCommand.response.kind = "object"
  /\ currentCommand.response.mode = "script"

---------------------------------------------------------------------------
(* The execution engine *)

C6_ListenerRemovedBeforePrompt ==
  pc # "waiting" => sigintListeners = <<>>

\* the runs of `a` are the first characters of `b`
IsPrefixOf(a, b) ==
  /\ Len(a) <= Len(b)
  /\ \A i \in 1..Len(a) :
       /\ a[i][1] = b[i][1]
       /\ IF i < Len(a) THEN a[i][2] = b[i][2] ELSE a[i][2] <= b[i][2]

\* C7: at the follow-up prompt, captured output of length L > 1000 is stored
\* as its first 1000 characters followed by the marker that states L - 1000,
\* of length 1000 + length(marker); captured output of length L <= 1000 is
\* stored unchanged.
C7_TruncationAtThousand ==
  pc = "prompt" =>
    LET L == StrLen(captured)
        n == Len(executionOutput)
    IN IF L > 1000
       THEN /\ n >= 2
            /\ executionOutput[n] = <<"marker", L - 1000>>
            /\ StrLen(SubSeq(executionOutput, 1, n - 1)) = 1000
            /\ IsPrefixOf(SubSeq(executionOutput, 1, n - 1), captured)
            /\ StrLen(executionOutput) = 1000 + MarkerLen(L - 1000)
       ELSE executionOutput = captured

\* output of 1000 characters and the text of an error were captured
C7_Witness ==
  /\ pc = "prompt"
  /\ waitState = "rejected"
  /\ StrLen(captured) > 1000
  /\ \E i \in 1..Len(captured) : captured[i][1] = "out"

C10_FollowUpStoresOutcomeRecord ==
  (lastStep = "EXECUTE_COMMAND" /\ currentState = "USER_REQUEST") =>
    /\ currentCommand.executionResults.kind = "object"
    /\ OptOutput(currentCommand.executionResults).kind = "string"
    /\ OptError(currentCommand.executionResults).kind = "bool"

---------------------------------------------------------------------------
(* Cancelled prompts and failed generations *)

\* handlers that ask the user for a text or a selection
PromptingHandlers ==
  {"NEW", "REQUEST_CLARIFICATION", "REFINE", "CHANGE_MODEL", "SCRIPT_SELECTION",
   "EXECUTE_COMMAND"}

\* C11: when the prompt of a prompting handler was cancelled, the handler
\* returned EXIT or USER_RESPONSE as the next state
C11_CancelledPromptExitsOrReviews ==
  (pc = "idle" /\ lastInput = "cancelled" /\ lastStep \in PromptingHandlers) =>
    currentState \in {"EXIT", "USER_RESPONSE"}

\* C12: a generation that fails in USER_REQUEST ends the handler at once
\* with EXIT as the next state, and the context is what it was on entry
C12_FailedGenerationExits ==
  [][(currentState = "USER_REQUEST" /\ lastInput' = "failed") =>
       (currentState' = "EXIT" /\ lastStep' = "USER_REQUEST" /\ ctx' = ctx)]_vars

\* a generation failed in the middle of a conversation, in script mode
C12_Witness ==
  /\ lastInput = "failed"
  /\ currentState = "EXIT"
  /\ commandHistory # <<>>
  /\ scriptMode
  /\ Truthy(scriptName)

---------------------------------------------------------------------------
(* The exchanges of a session *)

\* the exchanges of the session, oldest first
Exchanges == Append(commandHistory, currentCommand)

\* C13: the first exchange of the session has type prompt and every later one
\* type clarification or refinement; the exchange an answered clarification
\* begins has type clarification, the one a refinement instruction begins
\* (REFINE, follow-up prompt of EXECUTE_COMMAND) has type refinement
C13_ExchangeTypesFollowTheirOrigin ==
  /\ [](/\ Exchanges[1].type = "prompt"
        /\ \A i \in 2..Len(Exchanges) :
             Exchanges[i].type \in {"clarification", "refinement"})
  /\ [][Len(commandHistory') = Len(commandHistory) + 1 =>
          /\ currentState \in {"REQUEST_CLARIFICATION", "REFINE", "EXECUTE_COMMAND"}
          /\ currentCommand'.type =
               IF currentState = "REQUEST_CLARIFICATION" THEN "clarification"
               ELSE "refinement"]_vars

\* a prompt, then an answered clarification, then a refinement asked for after
\* an execution
C13_Witness ==
  /\ Len(commandHistory) = 2
  /\ commandHistory[1].type = "prompt"
  /\ commandHistory[2].type = "clarification"
  /\ currentCommand.type = "refinement"
  /\ lastStep = "EXECUTE_COMMAND"

\* the response of exchange e asks for a clarification
AsksClarification(e) ==
  /\ e.response # Null
  /\ Trim(e.response.clarification_needed) # <<>>

\* C14: every exchange of the history whose response asks for a clarification
\* was refused one or is followed at once by an exchange of type clarification
C14_ClarificationAnsweredOrRefused ==
  \A i \in 1..Len(commandHistory) :
    AsksClarification(commandHistory[i]) =>
      \/ commandHistory[i].refusedClarification = Bool(TRUE)
      \/ Exchanges[i + 1].type = "clarification"

\* a clarification answered, the next one refused, then a refinement
C14_Witness ==
  /\ Len(commandHistory) = 2
  /\ AsksClarification(commandHistory[1])
  /\ commandHistory[1].refusedClarification # Bool(TRUE)
  /\ commandHistory[2].type = "clarification"
  /\ AsksClarification(commandHistory[2])
  /\ commandHistory[2].refusedClarification = Bool(TRUE)
  /\ currentCommand.type = "refinement"

---------------------------------------------------------------------------
(* The runner *)

---------------------------------------------------------------------------
(* The review menu *)

\* the menu's keypress handler is registered
MenuListens == \E i \in 1..Len(keypressListeners) : keypressListeners[i] = "menu"

\* a step that is no transition of the machine
NoTransition == currentState' = currentState /\ ctx' = ctx

LeadsToTransition(k) ==
  \/ k \in {"return", "r", "c"}
  \/ k = "s" /\ ~scriptMode
  \/ k = "m" /\ hasMultipleModels

\* C17: the wait of USER_RESPONSE is resolved by the first key pressed at the
\* menu that leads to a transition, and its handler is then gone; any other
\* key at the menu, 'b' included, and the key that leaves the breakdown
\* resolve nothing and change no context; leaving the breakdown puts the
\* menu's handler back
C17_FirstEnabledKeyResolvesTheWait ==
  [][(currentState = "USER_RESPONSE" /\ keypressListeners # <<>> /\ ~processExited') =>
       /\ keypressListeners = <<"return">> =>
            (NoTransition /\ keypressListeners' = <<"menu">>)
       /\ keypressListeners = <<"menu">> =>
            IF LeadsToTransition(lastInput')
            THEN currentState' # "USER_RESPONSE" /\ keypressListeners' = <<>>
            ELSE /\ NoTransition
                 /\ keypressListeners' =
                      IF lastInput' = "b" /\ ~scriptMode THEN <<"return">> ELSE <<"menu">>
       /\ keypressListeners \in {<<"return">>, <<"menu">>}]_vars

\* Enter was pressed and the menu still waits: the key left the breakdown
C17_Witness ==
  /\ currentState = "USER_RESPONSE"
  /\ lastInput = "return"
  /\ keypressListeners = <<"menu">>
  /\ ~processExited

---------------------------------------------------------------------------
(* Generation and clarification *)

\* the context but for currentCommand
ContextBesidesCommand ==
  <<model, scriptMode, scriptName, commandHistory, config, hasMultipleModels,
    modelChanged>>

\* C18: a generation that succeeds and is not turned into a script goes to
\* REQUEST_CLARIFICATION exactly when the result's clarification_needed is not
\* blank and the exchange has not refused a clarification, else to
\* USER_RESPONSE; the result becomes the response of the current exchange, the
\* rest of the exchange and the history stay as they are
C18_GenerationRoutesOnClarification ==
  [][(currentState = "USER_REQUEST" /\ lastInput' \in {"generated", "declined", "cancelled"}) =>
       /\ currentCommand'.response # Null
       /\ currentState' =
            IF /\ AsksClarification(currentCommand')
               /\ currentCommand.refusedClarification # Bool(TRUE)
            THEN "REQUEST_CLARIFICATION" ELSE "USER_RESPONSE"
       /\ currentCommand'.response.clarification_needed = <<>> =>
            currentState' = "USER_RESPONSE"
       /\ currentCommand' = [currentCommand EXCEPT !.response = currentCommand'.response,
                                                    !.id = currentCommand'.id]
       /\ commandHistory' = commandHistory]_vars

\* a generation asked a blank clarification of an exchange that had refused
\* none, and the machine went to the review menu
C18_Witness ==
  /\ lastStep = "USER_REQUEST"
  /\ currentState = "USER_RESPONSE"
  /\ currentCommand.response # Null
  /\ currentCommand.response.clarification_needed = <<" ">>
  /\ currentCommand.refusedClarification # Bool(TRUE)
  /\ commandHistory # <<>>

\* C19: the user is asked to confirm a script only in command mode; when the
\* conversion is accepted the machine enters USER_REQUEST again with scriptMode
\* set and the exchange, its request and the history as they were; when it is
\* declined or the prompt cancelled scriptMode stays false and the result is
\* routed as usual
C19_ScriptConversionIsConfirmed ==
  [][(currentState = "USER_REQUEST" /\ lastInput' \in {"accepted", "declined", "cancelled"}) =>
       /\ ~scriptMode
       /\ IF lastInput' = "accepted"
          THEN /\ currentState' = "USER_REQUEST"
               /\ scriptMode'
               /\ currentCommand' = currentCommand
               /\ UNCHANGED <<model, scriptName, commandHistory, config,
                              hasMultipleModels, modelChanged>>
          ELSE /\ ~scriptMode'
               /\ currentState' \in {"REQUEST_CLARIFICATION", "USER_RESPONSE"}
               /\ currentCommand'.response # Null]_vars

\* the conversion of a refinement was accepted: the exchange waits in script
\* mode for its generation
C19_Witness ==
  /\ lastInput = "accepted"
  /\ lastStep = "USER_REQUEST"
  /\ currentState = "USER_REQUEST"
  /\ scriptMode
  /\ currentCommand.type = "refinement"
  /\ currentCommand.response = Undefined

\* C20: in REQUEST_CLARIFICATION an empty answer or a cancelled prompt marks
\* the current exchange as having refused and goes to USER_RESPONSE, not to a
\* generation; request, type and response of the exchange, the history and the
\* rest of the context stay as they are
C20_RefusalOnlyMarksTheExchange ==
  [][(currentState = "REQUEST_CLARIFICATION" /\ lastInput' \in {"blank", "cancelled"}) =>
       /\ currentState' = "USER_RESPONSE"
       /\ currentCommand' = [currentCommand EXCEPT !.refusedClarification = Bool(TRUE),
                                                    !.id = currentCommand'.id]
       /\ UNCHANGED ContextBesidesCommand]_vars

\* the prompt of a clarification was cancelled in the middle of a conversation
C20_Witness ==
  /\ lastStep = "REQUEST_CLARIFICATION"
  /\ lastInput = "cancelled"
  /\ currentState = "USER_RESPONSE"
  /\ currentCommand.refusedClarification = Bool(TRUE)
  /\ AsksClarification(currentCommand)
  /\ commandHistory # <<>>

\* C21: in REQUEST_CLARIFICATION an answer that is not empty puts the current
\* exchange, response included, at the end of commandHistory, makes
\* currentCommand a new exchange of type clarification whose request is the
\* answer, and goes to USER_REQUEST
C21_AnswerBeginsClarificationExchange ==
  [][(currentState = "REQUEST_CLARIFICATION" /\ lastInput' = "answered") =>
       /\ currentState' = "USER_REQUEST"
       /\ commandHistory' = Append(commandHistory, currentCommand)
       /\ commandHistory'[Len(commandHistory')].response # Null
       /\ currentCommand'.type = "clarification"
       /\ currentCommand'.request \in {Trim(t) : t \in UserTexts} \ {<<>>}
       /\ currentCommand'.response = Undefined
       /\ currentCommand'.id # currentCommand.id
       /\ UNCHANGED <<model, scriptMode, scriptName, config, hasMultipleModels,
                      modelChanged>>]_vars

\* a second clarification was answered
C21_Witness ==
  /\ lastStep = "REQUEST_CLARIFICATION"
  /\ lastInput = "answered"
  /\ currentState = "USER_REQUEST"
  /\ Len(commandHistory) = 2
  /\ AsksClarification(commandHistory[2])
  /\ currentCommand.type = "clarification"
  /\ currentCommand.request = <<"x">>

---------------------------------------------------------------------------
(* Refinements and model changes *)

\* C22: in REFINE a blank instruction and a cancelled prompt go to
\* USER_RESPONSE, not to a generation, with the whole context as on entry
C22_BlankRefinementChangesNothing ==
  [][(currentState = "REFINE" /\ lastInput' \in {"blank", "cancelled"}) =>
       (currentState' = "USER_RESPONSE" /\ ctx' = ctx)]_vars

\* the refinement of an exchange that carries execution results was cancelled
C22_Witness ==
  /\ lastStep = "REFINE"
  /\ lastInput = "cancelled"
  /\ currentState = "USER_RESPONSE"
  /\ Truthy(currentCommand.executionResults)
  /\ commandHistory # <<>>

\* C23: in REFINE an instruction that is not blank puts the current exchange at
\* the end of commandHistory and goes to USER_REQUEST with a new exchange of
\* type refinement that carries the instruction as its request and, in its
\* executionResults, the execution results of the prior exchange if it has any
C23_RefinementCarriesPriorResults ==
  [][(currentState = "REFINE" /\ lastInput' = "answered") =>
       /\ currentState' = "USER_REQUEST"
       /\ commandHistory' = Append(commandHistory, currentCommand)
       /\ currentCommand'.type = "refinement"
       /\ currentCommand'.request \in UserTexts \ BlankTexts
       /\ IF Truthy(currentCommand.executionResults)
          THEN currentCommand'.executionResults = currentCommand.executionResults
          ELSE ~Truthy(currentCommand'.executionResults)]_vars

\* C24: in CHANGE_MODEL the selection of the model in use goes to
\* USER_RESPONSE with the context as on entry: model, currentCommand and its
\* execution results, commandHistory, scriptName, and no modelChanged set
C24_SameModelChangesNothing ==
  [][(currentState = "CHANGE_MODEL" /\ lastInput' = "selected" /\ model' = model) =>
       (currentState' = "USER_RESPONSE" /\ ctx' = ctx)]_vars

\* C25: in CHANGE_MODEL the selection of another model sets model and
\* modelChanged, clears the execution results of the current exchange and
\* goes to USER_REQUEST; the request and the type of the exchange,
\* commandHistory, scriptMode and scriptName stay as they are
C25_OtherModelClearsResults ==
  [][(currentState = "CHANGE_MODEL" /\ lastInput' = "selected" /\ model' # model) =>
       /\ currentState' = "USER_REQUEST"
       /\ \E i \in 1..Len(config.models) : model' = config.models[i]
       /\ modelChanged'
       /\ ~Truthy(currentCommand'.executionResults)
       /\ currentCommand' = [currentCommand EXCEPT
                               !.executionResults = currentCommand'.executionResults]
       /\ UNCHANGED <<commandHistory, scriptMode, scriptName>>]_vars

C27_FollowUpExitsOrRefines ==
  [][(currentState = "EXECUTE_COMMAND" /\ pc = "prompt") =>
       /\ lastInput' = "blank" => (currentState' = "EXIT" /\ ctx' = ctx)
       /\ lastInput' = "answered" =>
            /\ currentState' = "USER_REQUEST"
            /\ commandHistory' = Append(commandHistory, currentCommand)
            /\ currentCommand'.type = "refinement"
            /\ currentCommand'.request \in UserTexts \ BlankTexts
            /\ currentCommand'.executionResults = Str(TruncateOutput(captured))
            /\ currentCommand'.response = Undefined
            /\ currentCommand'.id # currentCommand.id
            /\ UNCHANGED <<model, scriptMode, scriptName, config,
                           hasMultipleModels, modelChanged>>]_vars

\* the follow-up of a second execution was answered: the history holds the
\* two executed exchanges and the new one carries the output
C27_Witness ==
  /\ lastStep = "EXECUTE_COMMAND"
  /\ lastInput = "answered"
  /\ currentState = "USER_REQUEST"
  /\ Len(commandHistory) = 2
  /\ commandHistory[2].type = "refinement"
  /\ currentCommand.type = "refinement"
  /\ currentCommand.executionResults.kind = "string"
  /\ currentCommand.executionResults.value # <<>>

\* C28 as the specification states it: when USER_RESPONSE or REFINE handles
\* an exchange that carries the output an execution captured, and that
\* output is not empty, the handler shows it.
C28_LastOutputIsRendered ==
  LET results == currentCommand.executionResults
  IN (results.kind = "string" /\ results.value # <<>>) =>
       /\ currentState = "USER_RESPONSE" => LastOutputShown(currentCommand)
       /\ currentState = "REFINE" => HasOutput(currentCommand)

\* C29: while USER_RESPONSE waits at most one of its two key handlers, the
\* menu's or the breakdown's, is registered, and once its wait is resolved,
\* after any number of visits to the breakdown, neither is registered.
C29_OneKeyHandlerAtATime ==
  /\ Len(keypressListeners) <= 1
  /\ \A i \in 1..Len(keypressListeners) : keypressListeners[i] \in {"menu", "return"}
  /\ currentState # "USER_RESPONSE" => keypressListeners = <<>>

\* 'r' resolved the wait of a command's menu, where the breakdown is offered
C29_Witness ==
  /\ lastStep = "USER_RESPONSE"
  /\ lastInput = "r"
  /\ currentState = "REFINE"
  /\ ~scriptMode
  /\ HasBreakdown(currentCommand.response)
  /\ keypressListeners = <<>>
  /\ ~processExited

---------------------------------------------------------------------------
(* The request sent to the model *)

\* C30: for a context whose history has N entries the request holds 2N + 2
\* messages: the system message; for each entry, oldest first, a user message
\* by the entry's type (the request itself for a prompt, the clarification
\* wrapper, the refinement wrapper, with the entry's execution output in it
\* when it has one) and an assistant message with the entry's serialized
\* response; last the user message of currentCommand.
C30_RequestIsSystemTurnsThenCurrent ==
  currentState = "USER_REQUEST" =>
    LET N == Len(commandHistory)
        messages == BuildMessagesLLM(commandHistory, currentCommand, scriptMode)
        HasExecutionOutput(e) ==
          e.executionResults.kind = "string" /\ e.executionResults.value # <<>>
        UserTurn(e) ==
          CASE e.type = "prompt" -> [template |-> "request", request |-> e.request]
            [] e.type = "clarification" ->
                 [template |-> "clarification", request |-> e.request]
            [] e.type = "refinement" /\ HasExecutionOutput(e) ->
                 [template |-> "refine with results",
                  results |-> e.executionResults.value, request |-> e.request]
            [] e.type = "refinement" /\ ~HasExecutionOutput(e) ->
                 [template |-> "refine previous", request |-> e.request]
    IN /\ Len(messages) = 2 * N + 2
       /\ messages[1].role = "system"
       /\ messages[1].content.template =
            IF scriptMode THEN "script system" ELSE "command system"
       /\ \A k \in 1..N :
            /\ messages[2 * k].role = "user"
            /\ messages[2 * k].content = UserTurn(commandHistory[k])
            /\ messages[2 * k + 1].role = "assistant"
            /\ messages[2 * k + 1].content = [json |-> commandHistory[k].response]
       /\ messages[2 * N + 2].role = "user"
       /\ messages[2 * N + 2].content = UserTurn(currentCommand)

\* a request, its clarification and, after the execution, a follow-up that
\* carries the output: six messages are about to be sent
C30_Witness ==
  /\ currentState = "USER_REQUEST"
  /\ Len(commandHistory) = 2
  /\ commandHistory[1].type = "prompt"
  /\ commandHistory[2].type = "clarification"
  /\ currentCommand.type = "refinement"
  /\ currentCommand.executionResults.kind = "string"
  /\ currentCommand.executionResults.value # <<>>
  /\ Len(BuildMessagesLLM(commandHistory, currentCommand, scriptMode)) = 6

---------------------------------------------------------------------------
(* Entry, setup and the entry menus *)

C32_SetupProceedsWithTheRequest ==
  [][(currentState = "SETUP" /\ lastInput' = "saved") =>
       IF currentCommand.request # <<>>
       THEN /\ currentState' = "USER_REQUEST"
            /\ currentCommand'.type = "prompt"
            /\ currentCommand'.request = currentCommand.request
            /\ currentCommand'.response = Null
            /\ currentCommand'.refusedClarification = Bool(FALSE)
       ELSE currentState' = "NEW"]_vars

\* C33 as the specification states it: in NEW the option selected decides:
\* 'Refine an existing script' goes to SCRIPT_SELECTION, 'Generate a script'
\* to USER_REQUEST in script mode, 'Generate a command' to USER_REQUEST in
\* command mode, the last two with a fresh exchange of type prompt for the
\* typed request; a blank request and a cancelled prompt go to EXIT.
C33_NewFollowsTheSelectedOption ==
  [][(currentState = "NEW" /\ lastStep' = "NEW" /\ ~processExited) =>
       LET FreshPrompt(mode) ==
             /\ currentState' = "USER_REQUEST"
             /\ scriptMode' = mode
             /\ currentCommand'.type = "prompt"
             /\ currentCommand'.request \in UserTexts \ BlankTexts
             /\ currentCommand'.response = Null
       IN /\ lastInput' = "Refine an existing script" => currentState' = "SCRIPT_SELECTION"
          /\ lastInput' = "Generate a script" => FreshPrompt(TRUE)
          /\ lastInput' = "Generate a command" => FreshPrompt(FALSE)
          /\ lastInput' \in {"blank", "cancelled"} => currentState' = "EXIT"]_vars

\* C34: SCRIPT_SELECTION goes to NEW with the context as it was when there
\* are no saved scripts; to USER_REQUEST in script mode, with the selected
\* script's name and a fresh exchange of type prompt without a response, when
\* a script was selected and loaded; and to EXIT when the script could not be
\* loaded or a prompt was cancelled.  NEW never returns without input from
\* the user, so NEW and SCRIPT_SELECTION do not alternate on their own.
C34_ScriptSelectionRoutes ==
  /\ [][(currentState = "SCRIPT_SELECTION" /\ lastStep' = "SCRIPT_SELECTION") =>
          /\ lastInput' = "none" => (currentState' = "NEW" /\ ctx' = ctx)
          /\ lastInput' = "selected" =>
               /\ currentState' = "USER_REQUEST"
               /\ scriptMode'
               /\ scriptName' \in {Str(n) : n \in SavedScriptNames}
               /\ currentCommand'.type = "prompt"
               /\ currentCommand'.response = Null
               /\ commandHistory' = commandHistory
          /\ lastInput' \in {"load_failed", "cancelled"} =>
               (currentState' = "EXIT" /\ ctx' = ctx)
          /\ lastInput' \in {"none", "selected", "load_failed", "cancelled"}]_vars
  /\ [][(currentState = "NEW" /\ lastStep' = "NEW") =>
          lastInput' \in {"cancelled", "blank"} \cup
                         {MenuOptions(TRUE)[k] : k \in 1..3}]_vars

\* started with --refine-scripts, a saved script was selected and loaded
C34_Witness ==
  /\ lastStep = "SCRIPT_SELECTION"
  /\ lastInput = "selected"
  /\ currentState = "USER_REQUEST"
  /\ scriptMode
  /\ Truthy(scriptName)
  /\ currentCommand.type = "prompt"

---------------------------------------------------------------------------
(* The runner's states *)

\* C35 as the specification states it: every next state a handler returns is
\* one of the eleven registered states, so the runner never finds a state
\* without a handler.
C35_HandlersNameRegisteredStates == currentState \in RegisteredStates

\* C36 as the specification states it: the handler of EXECUTE_COMMAND starts
\* only right after Enter was pressed at the review menu, never right after
\* a run of its own.
C36_EachRunFollowsAnApproval ==
  [][(currentState = "EXECUTE_COMMAND" /\ pc = "idle" /\ pc' # "idle") =>
       (lastStep = "USER_RESPONSE" /\ lastInput = "return")]_vars

---------------------------------------------------------------------------
(* Responses and modes *)

\* C37: in REQUEST_CLARIFICATION, USER_RESPONSE, REFINE and EXECUTE_COMMAND
\* the response of currentCommand is a generated result, not null, and so is
\* the response of every exchange in commandHistory.
C37_ReviewedExchangesHaveAResponse ==
  /\ currentState \in {"REQUEST_CLARIFICATION", "USER_RESPONSE", "REFINE",
                        "EXECUTE_COMMAND"} =>
       /\ currentCommand.response.kind = "object"
       /\ currentCommand.response.mode \in {"command", "script"}
  /\ \A i \in 1..Len(commandHistory) : commandHistory[i].response.kind = "object"

\* a refinement is reviewed after the model was changed; the history holds
\* the executed exchange
C37_Witness ==
  /\ currentState = "USER_RESPONSE"
  /\ modelChanged
  /\ Len(commandHistory) = 2
  /\ currentCommand.type = "refinement"
  /\ currentCommand.response.kind = "object"

\* C38: scriptMode is set back to false by NEW only, and NEW runs only while
\* no handler but the entry handlers has run, so never after a generation;
\* accepting the conversion to a script needs command mode and sets script
\* mode, so it happens at most once in a session.
C38_ScriptModeIsNeverLeft ==
  /\ [](currentState \in {"NEW", "SETUP", "SCRIPT_SELECTION"} =>
          /\ lastStep \in {"init", "SETUP", "SCRIPT_SELECTION"}
          /\ currentCommand.response = Null
          /\ commandHistory = <<>>)
  /\ [][(scriptMode /\ ~scriptMode') => (currentState = "NEW" /\ lastStep' = "NEW")]_vars
  /\ [][(currentState = "USER_REQUEST" /\ lastInput' = "accepted") =>
          (~scriptMode /\ scriptMode' /\ currentState' = "USER_REQUEST")]_vars

\* the conversion of a refinement was accepted: script mode from here on
C38_Witness ==
  /\ lastStep = "USER_REQUEST"
  /\ lastInput = "accepted"
  /\ currentState = "USER_REQUEST"
  /\ scriptMode
  /\ commandHistory # <<>>
  /\ commandHistory[1].response.mode = "command"

\* C39: in script mode the result reviewed in USER_RESPONSE and run in
\* EXECUTE_COMMAND was generated in script mode and the script has a name; a
\* switch to script mode reaches neither state before such a generation.
C39_ScriptModeReviewsAScript ==
  (scriptMode /\ currentState \in {"USER_RESPONSE", "EXECUTE_COMMAND"}) =>
    /\ scriptName.kind = "string"
    /\ scriptName.value # <<>>
    /\ currentCommand.response.kind = "object"
    /\ currentCommand.response.mode = "script"

\* a command was refined, then 's' was pressed: the script generated for the
\* refinement is about to run
C39_Witness ==
  /\ scriptMode
  /\ currentState = "EXECUTE_COMMAND"
  /\ commandHistory # <<>>
  /\ commandHistory[1].response.mode = "command"
  /\ currentCommand.response.mode = "script"
  /\ scriptName.kind = "string"

---------------------------------------------------------------------------
(* Ctrl+C at the review menu *)

\* C40 as the specification states it: Ctrl+C pressed at the review menu is
\* answered by the menu handler's Ctrl+C branch, not by its copy branch, and
\* the machine goes to EXIT.
C40_CtrlCTakesTheExitBranch ==
  [][(MenuListens /\ lastInput' = "ctrl+c") =>
       /\ KeyBranch(Key("c", TRUE), scriptMode, hasMultipleModels) = "exit"
       /\ currentState' = "EXIT"]_vars

====
